---- MODULE Spec2Model ----
(***************************************************************************)
(* A model of core_simd's lane-generic vector types: the impl_vector!,     *)
(* impl_integer_vector! and impl_float_vector! macros                      *)
(* (crates/core_simd/src/macros.rs) and the operator contract that         *)
(* crates/core_simd/tests/ops_macros.rs checks against scalar references.  *)
(*                                                                         *)
(* Lane types: i8 and u8 at their real width; the float type is modelled   *)
(* with the IEEE-754 binary16 layout (1 sign, 5 exponent, 10 mantissa      *)
(* bits) paired with u16 as its bits type, because TLC's integers are      *)
(* 32 bits wide and cannot hold the bit pattern of an f32 lane.            *)
(***************************************************************************)
EXTENDS Integers, Sequences, FiniteSets, TLC

\* ------------------------------------------------------------ bounds

\* The largest lane count LANES that is explored (LANES ranges over 1..MaxLanes).
MaxLanes == 2

\* ------------------------------------------------------- lane types

IntTypes == {"i8", "u8"}
FloatTypes == {"f16"}
BitsTypes == {"u16"}
Types == IntTypes \cup FloatTypes \cup BitsTypes

\* Width in bits of one lane of the type.
LaneWidth(ty) == IF ty \in {"i8", "u8"} THEN 8 ELSE 16

\* core::mem::size_of of one lane, in bytes.
LaneBytes(ty) == LaneWidth(ty) \div 8

IsSigned(ty) == ty = "i8"

\* <$scalar>::MIN and <$scalar>::MAX of an integer lane type.
MinVal(ty) == IF IsSigned(ty) THEN 0 - 2^(LaneWidth(ty) - 1) ELSE 0
MaxVal(ty) == IF IsSigned(ty) THEN 2^(LaneWidth(ty) - 1) - 1 ELSE 2^LaneWidth(ty) - 1

\* Float layout: sign | exponent | mantissa.
ExpBits == 5
ManBits == 10

\* A float lane is its three fields; Float(s, e, m) builds one.
Float(s, e, m) == [s |-> s, e |-> e, m |-> m]

\* ------------------------------------------------- sampled lane values

\* The lane values the inputs are drawn from: the boundaries of each type and
\* ordinary values between them.
\* The array of the documented scenario, [1, 2, 3, 4]: four lanes whatever
\* MaxLanes is.
Scenario == <<1, 2, 3, 4>>

IntVals(ty) == IF ty = "i8" THEN {-128, -1, 0, 1, 127}
               ELSE IF ty = "u8" THEN {0, 1, 100, 200, 255}
               ELSE {0, 32768, 15360, 49152, 65026}

\* +0.0, -0.0, 1.0, -2.0, and a NaN with the sign bit set and payload 2.
FloatVals == {Float(0, 0, 0), Float(1, 0, 0), Float(0, 15, 0), Float(1, 16, 0),
              Float(1, 31, 514)}

Vals(ty) == IF ty \in FloatTypes THEN FloatVals ELSE IntVals(ty)

\* All arrays [T; n] over the sampled lane values.
Arrays(ty, n) == [1..n -> Vals(ty)]

\* ------------------------------------------------------------ values

\* Values held by the variables: an array [T; LANES], a vector Self([T; LANES])
\* (the tuple struct's field 0 is f0), a scalar T, or nothing.
Arr(lanes) == [k |-> "arr", v |-> lanes]
Sc(value) == [k |-> "sc", v |-> value]
None == [k |-> "none"]
Bool(b) == [k |-> "bool", v |-> b]
Vec(ty, array) == [k |-> "vec", ty |-> ty, f0 |-> array]

\* ------------------------------------------- impl_vector: conversions

\* splat gone wrong: only lane 0 receives the value, the rest stay 0.
splat_first_lane(ty, n, value) == Vec(ty, [i \in 1..n |-> IF i = 1 THEN value ELSE 0])

\* pub const fn splat(value) -> Self { Self([value; LANES]) }
splat(ty, n, value) == Vec(ty, [i \in 1..n |-> value])

\* pub const fn from_array(array) -> Self { Self(array) }
from_array(ty, array) == Vec(ty, array)

\* The copy loop gone wrong: `while i < LANES - 1` leaves the last lane as it
\* was initialised.
RECURSIVE to_array_loop_short(_, _, _)
to_array_loop_short(self, arr, i) ==
    IF i < Len(self.f0)
    THEN to_array_loop_short(self, [arr EXCEPT ![i] = self.f0[i]], i + 1)
    ELSE arr

\* to_array under cfg(target_arch = "wasm32"): arr starts as [self.0[0]; LANES]
\* and the while loop copies lane i for i = 0 .. LANES-1 (here 1 .. LANES).
RECURSIVE to_array_loop(_, _, _)
to_array_loop(self, arr, i) ==
    IF i <= Len(self.f0)
    THEN to_array_loop(self, [arr EXCEPT ![i] = self.f0[i]], i + 1)
    ELSE arr

to_array_wasm32(self) ==
    to_array_loop(self, [i \in 1..Len(self.f0) |-> self.f0[1]], 1)

\* pub const fn to_array(self) -> [T; LANES]: the copy loop on wasm32,
\* self.0 on every other target.
to_array(wasm32, self) == IF wasm32 THEN to_array_wasm32(self) ELSE self.f0

\* AsRef<[T; LANES]>::as_ref(&self) -> &self.0
as_ref(self) == self.f0

\* pub fn as_mut_slice(&mut self) -> &mut self.0: the lanes of this vector,
\* and of no other value, are what a write through the slice reaches.
as_mut_slice(self) == self.f0

\* The write gone wrong: every lane of the vector takes the value.
write_lane_fill(self, i, v) ==
    Vec(self.ty, [j \in 1..Len(as_mut_slice(self)) |-> v])

\* self.as_mut_slice()[i] = v: the vector after the write.
write_lane(self, i, v) == Vec(self.ty, [as_mut_slice(self) EXCEPT ![i] = v])

\* Clone::clone(&self) -> *self: a copy of the lanes.
clone(self) == Vec(self.ty, self.f0)

\* impl From<[T; LANES]> for Vector: Self(array)
From_array(ty, array) == Vec(ty, array)

\* impl From<Vector> for [T; LANES]: vector.0
From_vector(vector) == vector.f0

\* ------------------------------------------- integer lanes: scalar side

\* The value of the type congruent to n modulo 2^w (two's complement wrap).
Wrap(ty, n) == ((n - MinVal(ty)) % 2^LaneWidth(ty)) + MinVal(ty)

Abs(n) == IF n < 0 THEN 0 - n ELSE n

\* Rust's integer `/`: the quotient truncated toward zero (y # 0).
TruncDiv(x, y) ==
    IF (x < 0) = (y < 0) THEN Abs(x) \div Abs(y) ELSE 0 - (Abs(x) \div Abs(y))

\* Rust's integer `%`: the remainder has the sign of the dividend (y # 0).
TruncRem(x, y) == x - y * TruncDiv(x, y)

\* The two's complement bit pattern of an integer lane, and back.
ToPattern(ty, v) == IF v < 0 THEN v + 2^LaneWidth(ty) ELSE v
FromPattern(ty, p) ==
    IF IsSigned(ty) /\ p >= 2^(LaneWidth(ty) - 1) THEN p - 2^LaneWidth(ty) ELSE p

\* Bitwise combination of the low n bits of the patterns p and q.
RECURSIVE BitsOp(_, _, _, _)
BitsOp(o, p, q, n) ==
    IF n = 0 THEN 0
    ELSE LET bp == p % 2
             bq == q % 2
             b == IF o = "bitand" THEN (IF bp = 1 /\ bq = 1 THEN 1 ELSE 0)
                  ELSE IF o = "bitor" THEN (IF bp = 1 \/ bq = 1 THEN 1 ELSE 0)
                  ELSE (IF bp # bq THEN 1 ELSE 0)
         IN b + 2 * BitsOp(o, p \div 2, q \div 2, n - 1)

ArithOps == {"add", "sub", "mul"}
CheckedOps == {"div", "rem"}
BitOps == {"bitand", "bitor", "bitxor"}
Ops == ArithOps \cup CheckedOps \cup BitOps

\* The reference gone wrong: saturating instead of wrapping arithmetic.
scalar_fn_saturating(o, ty, x, y) ==
    LET e == IF o = "add" THEN x + y ELSE IF o = "sub" THEN x - y
             ELSE IF o = "mul" THEN x * y
             ELSE IF o = "div" THEN TruncDiv(x, y) ELSE TruncRem(x, y)
    IN IF o \in BitOps
       THEN FromPattern(ty, BitsOp(o, ToPattern(ty, x), ToPattern(ty, y), LaneWidth(ty)))
       ELSE IF e > MaxVal(ty) THEN MaxVal(ty)
       ELSE IF e < MinVal(ty) THEN MinVal(ty) ELSE e

\* The scalar reference $scalar_fn each operator's test compares against:
\* Scalar::wrapping_add / wrapping_sub / wrapping_mul / wrapping_div /
\* wrapping_rem, and <Scalar as BitAnd>::bitand etc. for the bitwise ones.
scalar_fn(o, ty, x, y) ==
    IF o = "add" THEN Wrap(ty, x + y)
    ELSE IF o = "sub" THEN Wrap(ty, x - y)
    ELSE IF o = "mul" THEN Wrap(ty, x * y)
    ELSE IF o = "div" THEN Wrap(ty, TruncDiv(x, y))
    ELSE IF o = "rem" THEN Wrap(ty, TruncRem(x, y))
    ELSE FromPattern(ty, BitsOp(o, ToPattern(ty, x), ToPattern(ty, y), LaneWidth(ty)))

\* The filter gone wrong: the signed types' MIN with -1 is not rejected.
check_fn_zero_only(o, ty, x, y) == IF o \in CheckedOps THEN y # 0 ELSE TRUE

\* The input filter $check_fn of the checked operators' tests:
\* |x, y| y != 0 && !(x == Scalar::MIN && y == -1) for signed types,
\* |_, y| y != 0 for unsigned ones, |_, _| true for every other operator.
check_fn(o, ty, x, y) ==
    IF o \in CheckedOps
    THEN IF IsSigned(ty) THEN y # 0 /\ ~(x = MinVal(ty) /\ y = -1) ELSE y # 0
    ELSE TRUE

\* ------------------------------------------ integer lanes: vector side

Panic == [k |-> "panic"]

\* One lane of a vector operator: add, sub and mul on the two's complement
\* patterns modulo 2^w, div and rem truncated, the bitwise ones bit by bit.
lane_op(o, ty, x, y) ==
    LET w == LaneWidth(ty)
        px == ToPattern(ty, x)
        py == ToPattern(ty, y)
    IN IF o = "add" THEN FromPattern(ty, (px + py) % 2^w)
       ELSE IF o = "sub" THEN FromPattern(ty, (px + 2^w - py) % 2^w)
       ELSE IF o = "mul" THEN FromPattern(ty, (px * py) % 2^w)
       ELSE IF o = "div" THEN TruncDiv(x, y)
       ELSE IF o = "rem" THEN TruncRem(x, y)
       ELSE FromPattern(ty, BitsOp(o, px, py, w))

\* The trap condition gone wrong: the overflow of MIN by -1 is not caught.
lane_traps_zero_only(o, ty, x, y) == o \in CheckedOps /\ y = 0

\* The lane pair on which division and remainder trap: a zero divisor, or
\* MIN with -1 for a signed type.
lane_traps(o, ty, x, y) ==
    /\ o \in CheckedOps
    /\ \/ y = 0
       \/ IsSigned(ty) /\ x = MinVal(ty) /\ y = -1

\* The operator gone wrong: it traps only when every lane pair traps.
vec_op_traps_when_all(o, a, b) ==
    IF \A i \in 1..Len(a.f0) : lane_traps(o, a.ty, a.f0[i], b.f0[i])
    THEN Panic
    ELSE Vec(a.ty, [i \in 1..Len(a.f0) |->
                      IF lane_traps(o, a.ty, a.f0[i], b.f0[i]) THEN 0
                      ELSE lane_op(o, a.ty, a.f0[i], b.f0[i])])

\* vector op vector.
vec_op(o, a, b) ==
    IF \E i \in 1..Len(a.f0) : lane_traps(o, a.ty, a.f0[i], b.f0[i])
    THEN Panic
    ELSE Vec(a.ty, [i \in 1..Len(a.f0) |-> lane_op(o, a.ty, a.f0[i], b.f0[i])])

\* vector op scalar: the scalar is the right operand of every lane.
vec_op_scalar(o, a, s) ==
    IF \E i \in 1..Len(a.f0) : lane_traps(o, a.ty, a.f0[i], s)
    THEN Panic
    ELSE Vec(a.ty, [i \in 1..Len(a.f0) |-> lane_op(o, a.ty, a.f0[i], s)])

\* scalar op vector: the scalar is the left operand of every lane.
scalar_op_vec(o, s, b) ==
    IF \E i \in 1..Len(b.f0) : lane_traps(o, b.ty, s, b.f0[i])
    THEN Panic
    ELSE Vec(b.ty, [i \in 1..Len(b.f0) |-> lane_op(o, b.ty, s, b.f0[i])])

\* ------------------------------------------------------ float lanes

\* The bit pattern of a float lane, and the float lane of a bit pattern.
FloatBits(f) == f.s * 2^(ExpBits + ManBits) + f.e * 2^ManBits + f.m
BitsFloat(p) == Float(p \div 2^(ExpBits + ManBits),
                      (p \div 2^ManBits) % 2^ExpBits,
                      p % 2^ManBits)

is_nan(f) == f.e = 2^ExpBits - 1 /\ f.m # 0

\* The position of a non-NaN float in the numeric order (both zeros at 0).
FloatKey(f) ==
    LET mag == f.e * 2^ManBits + f.m
    IN IF f.s = 1 THEN 0 - mag ELSE mag

\* The lane type's PartialEq and PartialOrd.
lane_eq(ty, x, y) ==
    IF ty \in FloatTypes
    THEN ~is_nan(x) /\ ~is_nan(y) /\ FloatKey(x) = FloatKey(y)
    ELSE x = y

lane_partial_cmp(ty, x, y) ==
    IF ty \in FloatTypes
    THEN IF is_nan(x) \/ is_nan(y) THEN "None"
         ELSE IF FloatKey(x) < FloatKey(y) THEN "Less"
         ELSE IF FloatKey(x) > FloatKey(y) THEN "Greater"
         ELSE "Equal"
    ELSE IF x < y THEN "Less" ELSE IF x > y THEN "Greater" ELSE "Equal"

\* The integer lane type's Ord.
lane_cmp(x, y) == IF x < y THEN "Less" ELSE IF x > y THEN "Greater" ELSE "Equal"

\* Scalar::abs, the reference of the abs test.
scalar_abs(f) == Float(0, f.e, f.m)

\* ----------------------------------------- impl_vector: comparisons

\* [T; N] == [T; N]: every lane pair equal under T's PartialEq, compared
\* from lane i on.
RECURSIVE array_eq(_, _, _, _)
array_eq(ty, l, r, i) ==
    IF i > Len(l) THEN TRUE
    ELSE IF ~lane_eq(ty, l[i], r[i]) THEN FALSE
    ELSE array_eq(ty, l, r, i + 1)

\* The comparison gone wrong: an unordered lane pair is passed over like an
\* equal one.
RECURSIVE array_partial_cmp_skip_none(_, _, _, _)
array_partial_cmp_skip_none(ty, l, r, i) ==
    IF i > Len(l) THEN "Equal"
    ELSE IF lane_partial_cmp(ty, l[i], r[i]) \notin {"Equal", "None"}
         THEN lane_partial_cmp(ty, l[i], r[i])
    ELSE array_partial_cmp_skip_none(ty, l, r, i + 1)

\* [T; N]::partial_cmp: the first lane pair, from lane i on, that does not
\* compare Some(Equal) decides; Some(Equal) when there is none.
RECURSIVE array_partial_cmp(_, _, _, _)
array_partial_cmp(ty, l, r, i) ==
    IF i > Len(l) THEN "Equal"
    ELSE IF lane_partial_cmp(ty, l[i], r[i]) # "Equal"
         THEN lane_partial_cmp(ty, l[i], r[i])
    ELSE array_partial_cmp(ty, l, r, i + 1)

\* [T; N]::cmp of integer lanes: the first lane pair that is not Equal decides.
RECURSIVE array_cmp(_, _, _)
array_cmp(l, r, i) ==
    IF i > Len(l) THEN "Equal"
    ELSE IF lane_cmp(l[i], r[i]) # "Equal" THEN lane_cmp(l[i], r[i])
    ELSE array_cmp(l, r, i + 1)

\* Equality gone wrong: the two arrays are compared bit for bit.
eq_bitwise(wasm32, self, other) == to_array(wasm32, self) = to_array(wasm32, other)

\* PartialEq::eq: self.to_array() == other.to_array()
eq(wasm32, self, other) ==
    array_eq(self.ty, to_array(wasm32, self), to_array(wasm32, other), 1)

\* PartialOrd::partial_cmp: self.to_array().partial_cmp(other.as_ref())
partial_cmp(wasm32, self, other) ==
    array_partial_cmp(self.ty, to_array(wasm32, self), as_ref(other), 1)

\* Ord::cmp (integer vectors): self.to_array().cmp(other.as_ref())
cmp(wasm32, self, other) ==
    array_cmp(to_array(wasm32, self), as_ref(other), 1)

\* ------------------------------------ impl_float_vector: bit patterns

\* The pairing gone wrong: a bits type of another lane width.
bits_ty_narrow(fty) == "u8"

\* The bits type $bits_ty a float vector type is declared with, and the
\* float type whose bits type it is.
bits_ty(fty) == "u16"
float_ty(bty) == "f16"

\* core::mem::size_of of a vector of n lanes.
size_of(ty, n) == n * LaneBytes(ty)

\* The bit pattern of a lane as it lies in memory.
LanePattern(ty, v) == IF ty \in FloatTypes THEN FloatBits(v) ELSE ToPattern(ty, v)

\* The lane of type ty whose bit pattern is p.
PatternLane(ty, p) == IF ty \in FloatTypes THEN BitsFloat(p) ELSE FromPattern(ty, p)

\* The bytes of a vector in memory: lane after lane, each little-endian.
MemOf(v) ==
    LET nb == LaneBytes(v.ty)
    IN [j \in 1..(Len(v.f0) * nb) |->
          (LanePattern(v.ty, v.f0[((j - 1) \div nb) + 1]) \div 256^((j - 1) % nb)) % 256]

\* The pattern held by the nb bytes of mem that start at byte offset off.
RECURSIVE MemPattern(_, _, _)
MemPattern(mem, off, nb) ==
    IF nb = 0 THEN 0
    ELSE mem[off + 1] + 256 * MemPattern(mem, off + 1, nb - 1)

\* core::mem::transmute_copy(&src) to a vector of n lanes of type dst: the
\* first size_of(dst, n) bytes of src read as lanes of dst.
transmute_copy(dst, n, src) ==
    LET mem == MemOf(src)
        nb == LaneBytes(dst)
    IN Vec(dst, [i \in 1..n |-> PatternLane(dst, MemPattern(mem, (i - 1) * nb, nb))])

\* pub fn to_bits(self): assert_eq! on the two sizes, then transmute_copy.
to_bits(self) ==
    LET n == Len(self.f0)
    IN IF size_of(self.ty, n) # size_of(bits_ty(self.ty), n) THEN Panic
       ELSE transmute_copy(bits_ty(self.ty), n, self)

\* pub fn from_bits(bits): assert_eq! on the two sizes, then transmute_copy.
from_bits(fty, bits) ==
    LET n == Len(bits.f0)
    IN IF size_of(fty, n) # size_of(bits.ty, n) THEN Panic
       ELSE transmute_copy(fty, n, bits)

\* The mask gone wrong: !0 >> 1 taken as a signed value keeps every bit set.
no_sign_mask_signed(bty) == 2^LaneWidth(bty) - 1

\* !0 >> 1 at the lane width of the bits type.
no_sign_mask(bty) == (2^LaneWidth(bty) - 1) \div 2

\* pub fn abs(self): from_bits(self.to_bits() & splat(!0 >> 1))
abs(self) ==
    LET no_sign == splat(bits_ty(self.ty), Len(self.f0), no_sign_mask(bits_ty(self.ty)))
        bits == to_bits(self)
    IN IF bits.k = "panic" THEN Panic
       ELSE from_bits(self.ty, vec_op("bitand", bits, no_sign))

\* ------------------------------------------- horizontal reductions

\* The cast gone wrong: the i8 pattern is zero-extended, so -1 becomes 255.
as_scalar_zero_extended(ty, v) == FromPattern(ty, IF v < 0 THEN v + 256 ELSE v)

\* `v as $scalar` for an i8 value v: sign-extended to the width of the type.
as_scalar(ty, v) == FromPattern(ty, IF v < 0 THEN v + 2^LaneWidth(ty) ELSE v)

\* The identities gone wrong: every fold starts from 0.
identity_zero(o, ty) == 0

\* The value each test's fold starts from: 0 as $scalar for the sum, 1 as
\* $scalar for the product, -1i8 as $scalar for and, 0 as $scalar for or and xor.
identity(o, ty) ==
    IF o = "add" THEN as_scalar(ty, 0)
    ELSE IF o = "mul" THEN as_scalar(ty, 1)
    ELSE IF o = "bitand" THEN as_scalar(ty, -1)
    ELSE as_scalar(ty, 0)

\* x.iter().copied().fold(acc, f) from lane i on, f the scalar function of o.
RECURSIVE fold(_, _, _, _, _)
fold(o, ty, acc, arr, i) ==
    IF i > Len(arr) THEN acc
    ELSE fold(o, ty, scalar_fn(o, ty, acc, arr[i]), arr, i + 1)

\* The reference of the horizontal_sum / product / and / or / xor tests.
reduction_reference(o, ty, arr) == fold(o, ty, identity(o, ty), arr, 1)

\* The sum (o = "add") or product of the bit patterns of the lanes from lane
\* i on, modulo 2^w.
RECURSIVE reduce_patterns(_, _, _, _)
reduce_patterns(o, self, i, w) ==
    IF i > Len(self.f0) THEN (IF o = "add" THEN 0 ELSE 1)
    ELSE LET p == ToPattern(self.ty, self.f0[i])
             rest == reduce_patterns(o, self, i + 1, w)
         IN IF o = "add" THEN (p + rest) % 2^w ELSE (p * rest) % 2^w

\* horizontal_sum and horizontal_product of an integer vector: wrapping.
horizontal_sum(self) ==
    FromPattern(self.ty, reduce_patterns("add", self, 1, LaneWidth(self.ty)))
horizontal_product(self) ==
    FromPattern(self.ty, reduce_patterns("mul", self, 1, LaneWidth(self.ty)))

\* Bit k of the pattern p.
Bit(p, k) == (p \div 2^k) % 2

\* Bits k .. w-1 of the and / or / xor of all lanes: bit k is set when every
\* lane, some lane, an odd number of lanes has it set.
RECURSIVE reduce_bits(_, _, _, _)
reduce_bits(o, self, k, w) ==
    IF k = w THEN 0
    ELSE LET set == {i \in 1..Len(self.f0) : Bit(ToPattern(self.ty, self.f0[i]), k) = 1}
             bit == IF o = "bitand" THEN (IF set = 1..Len(self.f0) THEN 1 ELSE 0)
                    ELSE IF o = "bitor" THEN (IF set # {} THEN 1 ELSE 0)
                    ELSE Cardinality(set) % 2
         IN bit * 2^k + reduce_bits(o, self, k + 1, w)

\* horizontal_and / horizontal_or / horizontal_xor of an integer vector.
horizontal_bits(o, self) ==
    FromPattern(self.ty, reduce_bits(o, self, 0, LaneWidth(self.ty)))

\* Iterator::max by the lane type's Ord from lane i on: of two equal
\* elements the later one is kept.
RECURSIVE iter_max(_, _, _)
iter_max(arr, best, i) ==
    IF i > Len(arr) THEN best
    ELSE iter_max(arr, IF lane_cmp(best, arr[i]) = "Greater" THEN best ELSE arr[i], i + 1)

\* Iterator::min: of two equal elements the earlier one is kept.
RECURSIVE iter_min(_, _, _)
iter_min(arr, best, i) ==
    IF i > Len(arr) THEN best
    ELSE iter_min(arr, IF lane_cmp(best, arr[i]) = "Greater" THEN arr[i] ELSE best, i + 1)

\* x.iter().copied().max().unwrap() and .min().unwrap(): N >= 1, so there is
\* a first lane to start from.
max_unwrap(arr) == iter_max(arr, arr[1], 2)
min_unwrap(arr) == iter_min(arr, arr[1], 2)

\* The ordering gone wrong: signed lanes are compared as unsigned patterns.
order_key_unsigned(ty, v) == ToPattern(ty, v)

\* The position of a lane in its type's ordering, computed on the bit
\* pattern: a signed lane has its sign bit flipped first.
order_key(ty, v) ==
    IF IsSigned(ty)
    THEN (ToPattern(ty, v) + 2^(LaneWidth(ty) - 1)) % 2^LaneWidth(ty)
    ELSE ToPattern(ty, v)

\* The lanes of a vector as a set.
LaneSet(self) == {self.f0[i] : i \in 1..Len(self.f0)}

\* horizontal_max and horizontal_min of an integer vector.
horizontal_max(self) ==
    CHOOSE v \in LaneSet(self) :
        \A u \in LaneSet(self) : order_key(self.ty, v) >= order_key(self.ty, u)
horizontal_min(self) ==
    CHOOSE v \in LaneSet(self) :
        \A u \in LaneSet(self) : order_key(self.ty, v) =< order_key(self.ty, u)

\* Scalar::NAN: the quiet NaN with the sign bit clear and an empty payload.
NAN == Float(0, 2^ExpBits - 1, 2^(ManBits - 1))

\* Scalar max and min gone wrong: a NaN on either side is returned.
scalar_maxmin_nan_wins(o, l, r) ==
    IF is_nan(l) THEN {l}
    ELSE IF is_nan(r) THEN {r}
    ELSE IF FloatKey(l) = FloatKey(r) THEN {l, r}
    ELSE IF (FloatKey(l) > FloatKey(r)) = (o = "max") THEN {l} ELSE {r}

\* Scalar::max (o = "max") and Scalar::min (o = "min"), as the set of values
\* the call may return: the other operand when one is NaN, a NaN when both
\* are, the greater / lesser operand otherwise, and either operand when the
\* two compare equal (zeros of opposite sign).
scalar_maxmin(o, l, r) ==
    IF is_nan(l) /\ is_nan(r) THEN {l, r}
    ELSE IF is_nan(l) THEN {r}
    ELSE IF is_nan(r) THEN {l}
    ELSE IF FloatKey(l) = FloatKey(r) THEN {l, r}
    ELSE IF (FloatKey(l) > FloatKey(r)) = (o = "max") THEN {l} ELSE {r}

\* x.iter().copied().fold(acc, Scalar::max) from lane i on, for every value
\* acc the accumulator may hold.
RECURSIVE float_fold(_, _, _, _)
float_fold(o, accs, arr, i) ==
    IF i > Len(arr) THEN accs
    ELSE float_fold(o, UNION {scalar_maxmin(o, acc, arr[i]) : acc \in accs}, arr, i + 1)

\* smax / smin of the float tests: the fold starts from Scalar::NAN.
float_reference(o, arr) == float_fold(o, {NAN}, arr, 1)

\* x.contains(&z) for a float z: some lane is == z.
contains(arr, z) == \E i \in 1..Len(arr) : lane_eq("f16", arr[i], z)

\* The condition under which the float tests skip the comparison: x contains
\* 0. and -0. and both results are a zero.
zero_exempt(arr, v, s) ==
    /\ contains(arr, Float(0, 0, 0))
    /\ contains(arr, Float(1, 0, 0))
    /\ lane_eq("f16", scalar_abs(v), Float(0, 0, 0))
    /\ lane_eq("f16", scalar_abs(s), Float(0, 0, 0))

\* horizontal_max and horizontal_min of a float vector, as the set of values
\* the reduction may return: the lanes are combined one after the other by
\* the lanewise max / min, starting from the first lane.
float_horizontal(o, self) == float_fold(o, {self.f0[1]}, self.f0, 2)

\* -------------------------------------------------------------- state

VARIABLES
    ty,        \* the lane type $type of the vectors at hand
    x, y,      \* the caller's inputs: arrays, a scalar, or no second input
    a, b,      \* the operands built from them: a is the caller's `mut a`
    copy,      \* the copy of a the caller took earlier, None before it did
    op,        \* the operation performed last: [fn, form]
    out,       \* the value it returned, None when it returned nothing
    panicked   \* whether it panicked

vars == <<ty, x, y, a, b, copy, op, out, panicked>>

\* The operand a caller builds from an input.
Operand(t, in) == IF in.k = "arr" THEN from_array(t, in.v) ELSE in

\* The input shapes: (array, none) for the unary operations, (array, array),
\* and for the integer types (array, scalar) and (scalar, array).
Inputs(t, n) ==
    LET arrs == {Arr(l) : l \in Arrays(t, n)}
        scs == {Sc(v) : v \in Vals(t)}
    IN (arrs \X {None})
       \cup (IF t \in BitsTypes THEN {} ELSE arrs \X arrs)
       \cup (IF t \in IntTypes THEN (arrs \X scs) \cup (scs \X arrs) ELSE {})

\* The scenario array as the input of a unary operation on an integer type.
ScenarioInputs(t) == IF t \in IntTypes THEN {<<Arr(Scenario), None>>} ELSE {}

Init ==
    \E t \in Types, n \in 1..MaxLanes :
        \E in \in Inputs(t, n) \cup ScenarioInputs(t) :
            /\ ty = t
            /\ x = in[1]
            /\ y = in[2]
            /\ a = Operand(t, in[1])
            /\ b = Operand(t, in[2])
            /\ copy = None
            /\ op = [fn |-> "none", form |-> "none"]
            /\ out = None
            /\ panicked = FALSE

Fresh == op.fn = "none"
Unary == Fresh /\ a.k = "vec" /\ b.k = "none"
VecVec == Fresh /\ a.k = "vec" /\ b.k = "vec"
VecSc == Fresh /\ a.k = "vec" /\ b.k = "sc"
ScVec == Fresh /\ a.k = "sc" /\ b.k = "vec"

\* An operation that leaves its operands alone ends with result r, or panics.
Return(fn, form, r) ==
    /\ op' = [fn |-> fn, form |-> form]
    /\ panicked' = (r.k = "panic")
    /\ out' = IF r.k = "panic" THEN None ELSE r
    /\ UNCHANGED <<ty, x, y, a, b, copy>>

\* An assigning operation stores its result r in a, unless it panics; the
\* test's closure then returns a.
Assign(fn, form, r) ==
    /\ op' = [fn |-> fn, form |-> form]
    /\ panicked' = (r.k = "panic")
    /\ a' = IF r.k = "panic" THEN a ELSE r
    /\ out' = IF r.k = "panic" THEN None ELSE r
    /\ UNCHANGED <<ty, x, y, b, copy>>

\* ------------------------------------------------------ conversions

\* from_array(x).to_array()
ToArray ==
    /\ Unary
    /\ \E wasm32 \in BOOLEAN :
          Return("to_array", "unary", Arr(to_array(wasm32, from_array(ty, x.v))))

\* from_array(v.to_array()) for the vector v = a
FromArrayOfToArray ==
    /\ Unary
    /\ \E wasm32 \in BOOLEAN :
          Return("from_array", "unary", from_array(ty, to_array(wasm32, a)))

\* Vector::from(x)
FromArr ==
    /\ Unary
    /\ Return("From_array", "unary", From_array(ty, x.v))

\* <[T; LANES]>::from(a)
FromVec ==
    /\ Unary
    /\ Return("From_vector", "unary", Arr(From_vector(a)))

\* ------------------------------------------------------- comparisons

Eq ==
    /\ VecVec
    /\ \E wasm32 \in BOOLEAN : Return("eq", "normal", Bool(eq(wasm32, a, b)))

\* a == a
EqSelf ==
    /\ Unary
    /\ \E wasm32 \in BOOLEAN : Return("eq", "self", Bool(eq(wasm32, a, a)))

PartialCmp ==
    /\ VecVec
    /\ \E wasm32 \in BOOLEAN :
          Return("partial_cmp", "normal", Sc(partial_cmp(wasm32, a, b)))

Cmp ==
    /\ VecVec
    /\ ty \in IntTypes
    /\ \E wasm32 \in BOOLEAN : Return("cmp", "normal", Sc(cmp(wasm32, a, b)))

\* ---------------------------------------------------- float bit patterns

ToBits ==
    /\ Unary
    /\ ty \in FloatTypes
    /\ Return("to_bits", "unary", to_bits(a))

\* from_bits(a.to_bits())
FromBitsOfToBits ==
    /\ Unary
    /\ ty \in FloatTypes
    /\ LET bits == to_bits(a)
       IN Return("from_bits", "round_trip",
                 IF bits.k = "panic" THEN Panic ELSE from_bits(ty, bits))

FromBits ==
    /\ Unary
    /\ ty \in BitsTypes
    /\ Return("from_bits", "unary", from_bits(float_ty(ty), a))

\* from_bits(a).to_bits()
ToBitsOfFromBits ==
    /\ Unary
    /\ ty \in BitsTypes
    /\ LET f == from_bits(float_ty(ty), a)
       IN Return("to_bits", "round_trip",
                 IF f.k = "panic" THEN Panic ELSE to_bits(f))

AbsOp ==
    /\ Unary
    /\ ty \in FloatTypes
    /\ Return("abs", "unary", abs(a))

\* ------------------------------------------------- integer operators

\* a op b
Normal ==
    /\ VecVec
    /\ ty \in IntTypes
    /\ \E o \in Ops : Return(o, "normal", vec_op(o, a, b))

\* a op s
ScalarRhs ==
    /\ VecSc
    /\ \E o \in Ops : Return(o, "scalar_rhs", vec_op_scalar(o, a, b.v))

\* s op b
ScalarLhs ==
    /\ ScVec
    /\ \E o \in Ops : Return(o, "scalar_lhs", scalar_op_vec(o, a.v, b))

\* a op= b
AssignOp ==
    /\ VecVec
    /\ ty \in IntTypes
    /\ \E o \in Ops : Assign(o, "assign", vec_op(o, a, b))

\* a op= s
AssignScalarRhs ==
    /\ VecSc
    /\ \E o \in Ops : Assign(o, "assign_scalar_rhs", vec_op_scalar(o, a, b.v))

\* ----------------------------------------------- horizontal reductions

HorizontalSum ==
    /\ Unary
    /\ ty \in IntTypes
    /\ Return("horizontal_sum", "unary", Sc(horizontal_sum(a)))

HorizontalProduct ==
    /\ Unary
    /\ ty \in IntTypes
    /\ Return("horizontal_product", "unary", Sc(horizontal_product(a)))

HorizontalAnd ==
    /\ Unary
    /\ ty \in IntTypes \cup BitsTypes
    /\ Return("horizontal_and", "unary", Sc(horizontal_bits("bitand", a)))

HorizontalOr ==
    /\ Unary
    /\ ty \in IntTypes \cup BitsTypes
    /\ Return("horizontal_or", "unary", Sc(horizontal_bits("bitor", a)))

HorizontalXor ==
    /\ Unary
    /\ ty \in IntTypes \cup BitsTypes
    /\ Return("horizontal_xor", "unary", Sc(horizontal_bits("bitxor", a)))

HorizontalMax ==
    /\ Unary
    /\ ty \in IntTypes \cup BitsTypes
    /\ Return("horizontal_max", "unary", Sc(horizontal_max(a)))

HorizontalMin ==
    /\ Unary
    /\ ty \in IntTypes \cup BitsTypes
    /\ Return("horizontal_min", "unary", Sc(horizontal_min(a)))

FloatHorizontalMax ==
    /\ Unary
    /\ ty \in FloatTypes
    /\ \E r \in float_horizontal("max", a) : Return("horizontal_max", "unary", Sc(r))

FloatHorizontalMin ==
    /\ Unary
    /\ ty \in FloatTypes
    /\ \E r \in float_horizontal("min", a) : Return("horizontal_min", "unary", Sc(r))

\* ---------------------------------------------- copies and lane writes

\* The values a caller writes into a lane.
WriteVals(t) == IF t \in FloatTypes THEN {Float(0, 0, 0), Float(0, 15, 0)} ELSE {0, 1}

\* The caller holds one vector, a, and nothing has panicked or been written.
Owned == a.k = "vec" /\ b.k # "vec" /\ ~panicked /\ op.fn # "write"

\* let copy = a.clone(), before or after the operation.
Clone ==
    /\ Owned
    /\ copy.k = "none"
    /\ copy' = clone(a)
    /\ UNCHANGED <<ty, x, y, a, b, op, out, panicked>>

\* a.as_mut_slice()[i] = v, before or after the operation.
Write ==
    /\ Owned
    /\ \E i \in 1..Len(a.f0), v \in WriteVals(ty) : a' = write_lane(a, i, v)
    /\ op' = [fn |-> "write", form |-> "lane"]
    /\ out' = None
    /\ panicked' = FALSE
    /\ UNCHANGED <<ty, x, y, b, copy>>

Next ==
    \/ ToArray
    \/ FromArrayOfToArray
    \/ FromArr
    \/ FromVec
    \/ Eq
    \/ EqSelf
    \/ PartialCmp
    \/ Cmp
    \/ ToBits
    \/ FromBitsOfToBits
    \/ FromBits
    \/ ToBitsOfFromBits
    \/ AbsOp
    \/ Normal
    \/ ScalarRhs
    \/ ScalarLhs
    \/ AssignOp
    \/ AssignScalarRhs
    \/ HorizontalSum
    \/ HorizontalProduct
    \/ HorizontalAnd
    \/ HorizontalOr
    \/ HorizontalXor
    \/ HorizontalMax
    \/ HorizontalMin
    \/ FloatHorizontalMax
    \/ FloatHorizontalMin
    \/ Clone
    \/ Write

Spec == Init /\ [][Next]_vars

\* ------------------------------------------------------------ claims

\* C1: from_array(arr).to_array() is arr, lane i of the result being arr[i];
\* from_array(v.to_array()) has exactly the lanes of v; and the two From
\* conversions return what from_array and to_array return.
C1_ArrayRoundTrip ==
    /\ (op.fn = "to_array") =>
          /\ ~panicked
          /\ out.k = "arr"
          /\ Len(out.v) = Len(x.v)
          /\ \A i \in 1..Len(x.v) : out.v[i] = x.v[i]
    /\ (op.fn = "from_array") =>
          /\ ~panicked
          /\ out.k = "vec" /\ out.ty = ty
          /\ Len(out.f0) = Len(x.v)
          /\ \A i \in 1..Len(x.v) : out.f0[i] = x.v[i]
    /\ (op.fn = "From_array") =>
          /\ ~panicked
          /\ out = from_array(ty, x.v)
          /\ \A i \in 1..Len(x.v) : out.f0[i] = x.v[i]
    /\ (op.fn = "From_vector") =>
          /\ ~panicked
          /\ out.k = "arr"
          /\ \A w \in BOOLEAN : out.v = to_array(w, a)
          /\ out.v = x.v

\* Two lanes that differ came back in their order.
C1_Witness ==
    /\ op.fn = "to_array"
    /\ Len(x.v) >= 2
    /\ x.v[1] # x.v[2]
    /\ out.v[1] = x.v[1] /\ out.v[2] = x.v[2]

\* The exact integer x op y for the wrapping operators.
Exact(o, p, q) == IF o = "add" THEN p + q ELSE IF o = "sub" THEN p - q ELSE p * q

\* C2: on the integer types +, - and * never panic and lane i of the result
\* is x[i] op y[i] reduced modulo 2^w into the type's range, which is what
\* the scalar wrapping_add / wrapping_sub / wrapping_mul return;
\* i8::MAX + 1 is i8::MIN and 200u8 + 100 is 44.
C2_WrappingArithmetic ==
    (op.fn \in ArithOps /\ op.form = "normal") =>
        /\ ~panicked
        /\ out.k = "vec" /\ out.ty = ty
        /\ Len(out.f0) = Len(x.v)
        /\ \A i \in 1..Len(x.v) :
              /\ MinVal(ty) <= out.f0[i] /\ out.f0[i] <= MaxVal(ty)
              /\ (out.f0[i] - Exact(op.fn, x.v[i], y.v[i])) % 2^LaneWidth(ty) = 0
              /\ out.f0[i] = scalar_fn(op.fn, ty, x.v[i], y.v[i])
              /\ (ty = "i8" /\ op.fn = "add" /\ x.v[i] = 127 /\ y.v[i] = 1)
                     => out.f0[i] = -128
              /\ (ty = "u8" /\ op.fn = "add" /\ x.v[i] = 200 /\ y.v[i] = 100)
                     => out.f0[i] = 44

\* Some lane added 1 to i8::MAX and holds i8::MIN.
C2_Witness ==
    /\ op.fn = "add" /\ op.form = "normal"
    /\ ty = "i8"
    /\ \E i \in 1..Len(x.v) : x.v[i] = 127 /\ y.v[i] = 1 /\ out.f0[i] = -128

\* C3: on the integer types a / b and a % b panic whenever some lane of the
\* divisor b is 0, all lanes or a single one, and return nothing.
C3_ZeroDivisorPanics ==
    (/\ op.fn \in CheckedOps
     /\ op.form = "normal"
     /\ \E i \in 1..Len(y.v) : y.v[i] = 0) =>
        panicked /\ out = None

\* Exactly one lane of the divisor, and not the first, is 0.
C3_Witness ==
    /\ op.fn \in CheckedOps /\ op.form = "normal"
    /\ Len(y.v) >= 2
    /\ y.v[1] # 0 /\ y.v[2] = 0
    /\ panicked

\* C4: on the signed types a / b and a % b panic whenever some lane has
\* a[i] = MIN and b[i] = -1, and return nothing: no lane holds the wrapped
\* MIN or 0.
C4_MinOverflowPanics ==
    (/\ op.fn \in CheckedOps
     /\ op.form = "normal"
     /\ IsSigned(ty)
     /\ \E i \in 1..Len(x.v) : x.v[i] = MinVal(ty) /\ y.v[i] = -1) =>
        panicked /\ out = None

\* MIN / -1 in one lane, an ordinary quotient in the other.
C4_Witness ==
    /\ op.fn \in CheckedOps /\ op.form = "normal"
    /\ IsSigned(ty)
    /\ Len(x.v) >= 2
    /\ x.v[1] = 1 /\ y.v[1] = 1
    /\ x.v[2] = MinVal(ty) /\ y.v[2] = -1
    /\ panicked

\* No lane pair is one that traps: a zero divisor, or MIN with -1 (signed).
NoTrapLane(u, v) ==
    \A i \in 1..Len(u) :
        v[i] # 0 /\ ~(IsSigned(ty) /\ u[i] = MinVal(ty) /\ v[i] = -1)

\* C5: when no single lane has y[i] = 0 or (signed) x[i] = MIN with
\* y[i] = -1, which is exactly when the tests' filter accepts every lane,
\* x / y and x % y do not panic; lane i is wrapping_div / wrapping_rem of the
\* lane pair: the quotient truncated toward zero, the remainder with the
\* sign of the dividend.
C5_CheckedDivRem ==
    (op.fn \in CheckedOps /\ op.form = "normal") =>
        /\ NoTrapLane(x.v, y.v)
              <=> (\A i \in 1..Len(x.v) : check_fn(op.fn, ty, x.v[i], y.v[i]))
        /\ NoTrapLane(x.v, y.v) =>
              /\ ~panicked
              /\ out.k = "vec"
              /\ Len(out.f0) = Len(x.v)
              /\ \A i \in 1..Len(x.v) :
                    /\ out.f0[i] = scalar_fn(op.fn, ty, x.v[i], y.v[i])
                    /\ LET q == IF op.fn = "div" THEN out.f0[i]
                                ELSE (x.v[i] - out.f0[i]) \div y.v[i]
                           r == IF op.fn = "rem" THEN out.f0[i]
                                ELSE x.v[i] - out.f0[i] * y.v[i]
                       IN /\ x.v[i] = q * y.v[i] + r
                          /\ Abs(r) < Abs(y.v[i])
                          /\ r = 0 \/ ((r < 0) = (x.v[i] < 0))

\* MIN in one lane of the dividend and -1 in another lane of the divisor.
C5_Witness ==
    /\ op.fn = "div" /\ op.form = "normal"
    /\ IsSigned(ty)
    /\ Len(x.v) >= 2
    /\ x.v[1] = MinVal(ty) /\ y.v[1] = 1
    /\ x.v[2] = 1 /\ y.v[2] = -1
    /\ ~panicked
    /\ out.f0[1] = MinVal(ty) /\ out.f0[2] = -1

\* The left and right scalar of lane i, a scalar input standing in every lane.
LeftLane(i) == IF x.k = "arr" THEN x.v[i] ELSE x.v
RightLane(i) == IF y.k = "arr" THEN y.v[i] ELSE y.v
InputLanes == IF x.k = "arr" THEN Len(x.v) ELSE Len(y.v)

\* The vector-vector operation a form stands for: a scalar is splat first.
Broadcast(in) == IF in.k = "arr" THEN from_array(ty, in.v) ELSE splat(ty, InputLanes, in.v)

\* C6: for every binary operator, vector op s is vector op splat(s), s op
\* vector is splat(s) op vector, and after a op= b and a op= s the variable
\* a holds the lanes of a_before op b and a_before op splat(s); every form
\* agrees lane by lane with the scalar reference and traps on the same lane
\* pairs.
C6_BroadcastAndAssignForms ==
    (op.fn \in Ops) =>
        LET r == vec_op(op.fn, Broadcast(x), Broadcast(y))
        IN /\ panicked = (r.k = "panic")
           /\ panicked => out = None
           /\ ~panicked => out = r
           /\ (~panicked /\ op.form \in {"assign", "assign_scalar_rhs"}) => a = r
           /\ panicked <=>
                 (\E i \in 1..InputLanes :
                      ~check_fn(op.fn, ty, LeftLane(i), RightLane(i)))
           /\ ~panicked =>
                 /\ Len(out.f0) = InputLanes
                 /\ \A i \in 1..InputLanes :
                       out.f0[i] = scalar_fn(op.fn, ty, LeftLane(i), RightLane(i))

\* a -= s stored a new value in a, on at least two lanes.
C6_Witness ==
    /\ op.fn = "sub" /\ op.form = "assign_scalar_rhs"
    /\ Len(x.v) >= 2
    /\ y.v # 0
    /\ a # from_array(ty, x.v)
    /\ a = out

\* C7: a == b exactly when every lane pair is equal under the lane type's
\* equality; an integer vector equals itself, a float vector with a NaN lane
\* does not.
C7_EqIsLanewise ==
    (op.fn = "eq") =>
        /\ ~panicked
        /\ out.k = "bool"
        /\ (op.form = "normal") =>
              (out.v <=> (\A i \in 1..Len(x.v) : lane_eq(ty, x.v[i], y.v[i])))
        /\ (op.form = "self") =>
              /\ (ty \notin FloatTypes) => out.v
              /\ (ty \in FloatTypes) =>
                    (out.v <=> ~(\E i \in 1..Len(x.v) : is_nan(x.v[i])))

\* A float vector with a NaN lane was compared with itself and is not equal.
C7_Witness ==
    /\ op.fn = "eq" /\ op.form = "self"
    /\ ty \in FloatTypes
    /\ \E i \in 1..Len(x.v) : is_nan(x.v[i])
    /\ out.v = FALSE

\* The lexicographic comparison of two lane sequences, the lanes compared by c.
FirstDiff(u, v, c(_, _)) == {i \in 1..Len(u) : c(u[i], v[i]) # "Equal"}
SetMin(S) == CHOOSE i \in S : \A j \in S : i <= j
Lexicographic(u, v, c(_, _)) ==
    IF FirstDiff(u, v, c) = {} THEN "Equal"
    ELSE c(u[SetMin(FirstDiff(u, v, c))], v[SetMin(FirstDiff(u, v, c))])

LanePartialCmp(p, q) == lane_partial_cmp(ty, p, q)
Reverse(o) == IF o = "Less" THEN "Greater" ELSE IF o = "Greater" THEN "Less" ELSE o

\* C8: partial_cmp is the lexicographic comparison of the lanes from lane 0:
\* the first lane pair that differs decides, None when that pair is
\* unordered. On integer vectors cmp is a total order, Equal exactly for
\* equal vectors, and partial_cmp is Some(cmp).
C8_LexicographicOrder ==
    /\ (op.fn = "partial_cmp") =>
          /\ ~panicked
          /\ out.v = Lexicographic(x.v, y.v, LanePartialCmp)
          /\ (ty \notin FloatTypes) => out.v # "None"
    /\ (op.fn = "cmp") =>
          /\ ~panicked
          /\ out.v \in {"Less", "Equal", "Greater"}
          /\ out.v = Lexicographic(x.v, y.v, lane_cmp)
          /\ \A w \in BOOLEAN :
                /\ cmp(w, b, a) = Reverse(out.v)
                /\ (out.v = "Equal") <=> eq(w, a, b)
                /\ (out.v = "Equal") <=> (x.v = y.v)
                /\ partial_cmp(w, a, b) = out.v
                /\ \A l \in Arrays(ty, Len(x.v)) :
                      (out.v # "Greater" /\ cmp(w, b, from_array(ty, l)) # "Greater")
                          => cmp(w, a, from_array(ty, l)) # "Greater"

\* Float vectors equal in lane 0 and unordered in lane 1 compared as None.
C8_Witness ==
    /\ op.fn = "partial_cmp"
    /\ ty \in FloatTypes
    /\ Len(x.v) >= 2
    /\ lane_partial_cmp(ty, x.v[1], y.v[1]) = "Equal"
    /\ is_nan(y.v[2]) /\ ~is_nan(x.v[2])
    /\ out.v = "None"

\* C9: to_bits and from_bits never panic and are inverse to each other on
\* bit patterns: from_bits(v.to_bits()) has the lanes of v bit for bit,
\* from_bits(b).to_bits() is b, and lane i of the float is lane i of the bits.
C9_BitsRoundTrip ==
    /\ (op.fn \in {"to_bits", "from_bits"}) => ~panicked
    /\ (op.fn = "to_bits" /\ op.form = "unary") =>
          /\ out.k = "vec" /\ out.ty = bits_ty(ty)
          /\ Len(out.f0) = Len(x.v)
          /\ \A i \in 1..Len(x.v) :
                out.f0[i] = x.v[i].s * 2^(LaneWidth(ty) - 1)
                              + x.v[i].e * 2^ManBits + x.v[i].m
    /\ (op.fn = "from_bits" /\ op.form = "unary") =>
          /\ out.k = "vec" /\ out.ty = float_ty(ty)
          /\ Len(out.f0) = Len(x.v)
          /\ \A i \in 1..Len(x.v) : FloatBits(out.f0[i]) = x.v[i]
    /\ (op.fn = "from_bits" /\ op.form = "round_trip") =>
          /\ out.k = "vec" /\ out.ty = ty
          /\ Len(out.f0) = Len(x.v)
          /\ \A i \in 1..Len(x.v) : out.f0[i] = x.v[i]
    /\ (op.fn = "to_bits" /\ op.form = "round_trip") =>
          /\ out.k = "vec" /\ out.ty = ty
          /\ Len(out.f0) = Len(x.v)
          /\ \A i \in 1..Len(x.v) : out.f0[i] = x.v[i]

\* A NaN with its payload and sign, and a -0.0, came back from the bits.
C9_Witness ==
    /\ op.fn = "from_bits" /\ op.form = "round_trip"
    /\ Len(x.v) >= 2
    /\ is_nan(x.v[1]) /\ x.v[1].s = 1 /\ x.v[1].m = 514
    /\ x.v[2] = Float(1, 0, 0)
    /\ out.f0 = x.v

\* C10: the bit pattern of lane i of v.abs() is that of lane i of v ANDed
\* with 2^(w-1) - 1: the sign bit cleared, every other bit unchanged, as the
\* scalar abs does; -0.0 becomes +0.0 and a NaN keeps its payload.
C10_AbsClearsSignBit ==
    (op.fn = "abs") =>
        /\ ~panicked
        /\ out.k = "vec" /\ out.ty = ty
        /\ Len(out.f0) = Len(x.v)
        /\ \A i \in 1..Len(x.v) :
              /\ FloatBits(out.f0[i])
                    = BitsOp("bitand", FloatBits(x.v[i]), 2^(LaneWidth(ty) - 1) - 1,
                             LaneWidth(ty))
              /\ FloatBits(out.f0[i]) = FloatBits(x.v[i]) % 2^(LaneWidth(ty) - 1)
              /\ out.f0[i].s = 0
              /\ out.f0[i].e = x.v[i].e /\ out.f0[i].m = x.v[i].m
              /\ out.f0[i] = scalar_abs(x.v[i])
              /\ (x.v[i] = Float(1, 0, 0)) => out.f0[i] = Float(0, 0, 0)
              /\ is_nan(x.v[i]) => is_nan(out.f0[i])

\* abs of a vector holding -0.0 and a negative NaN.
C10_Witness ==
    /\ op.fn = "abs"
    /\ Len(x.v) >= 2
    /\ x.v[1] = Float(1, 0, 0) /\ out.f0[1] = Float(0, 0, 0)
    /\ is_nan(x.v[2]) /\ x.v[2].s = 1
    /\ out.f0[2] = Float(0, 31, 514)

\* The exact sum and product of the lanes from lane i on.
RECURSIVE ExactSum(_, _)
ExactSum(arr, i) == IF i > Len(arr) THEN 0 ELSE arr[i] + ExactSum(arr, i + 1)
RECURSIVE ExactProduct(_, _)
ExactProduct(arr, i) == IF i > Len(arr) THEN 1 ELSE arr[i] * ExactProduct(arr, i + 1)

\* C11: on the integer types horizontal_sum is the fold of wrapping_add over
\* the lanes from 0 and horizontal_product the fold of wrapping_mul from 1,
\* both modulo 2^w and never panicking; splat(0) sums to 0, splat(1)
\* multiplies to 1 and [1, 2, 3, 4] sums to 10.
C11_WrappingSumProduct ==
    /\ (op.fn = "horizontal_sum") =>
          /\ ~panicked
          /\ out.k = "sc"
          /\ out.v = reduction_reference("add", ty, x.v)
          /\ MinVal(ty) <= out.v /\ out.v <= MaxVal(ty)
          /\ (out.v - ExactSum(x.v, 1)) % 2^LaneWidth(ty) = 0
          /\ (\A i \in 1..Len(x.v) : x.v[i] = 0) => out.v = 0
          /\ (x.v = Scenario) => out.v = 10
    /\ (op.fn = "horizontal_product") =>
          /\ ~panicked
          /\ out.k = "sc"
          /\ out.v = reduction_reference("mul", ty, x.v)
          /\ MinVal(ty) <= out.v /\ out.v <= MaxVal(ty)
          /\ (out.v - ExactProduct(x.v, 1)) % 2^LaneWidth(ty) = 0
          /\ (\A i \in 1..Len(x.v) : x.v[i] = 1) => out.v = 1

\* A product of two lanes wrapped: MIN * -1 is MIN on i8.
C11_Witness ==
    /\ op.fn = "horizontal_product"
    /\ ty = "i8"
    /\ Len(x.v) = 2
    /\ x.v[1] = -128 /\ x.v[2] = -1
    /\ out.v = -128

\* C12: on the integer types horizontal_and, horizontal_or and horizontal_xor
\* are the folds of &, | and ^ over all lanes from all-ones (-1i8 as T, every
\* bit of T set), zero and zero.
C12_BitwiseReductions ==
    /\ (op.fn = "horizontal_and") =>
          /\ ~panicked
          /\ out.k = "sc"
          /\ identity("bitand", ty) = FromPattern(ty, 2^LaneWidth(ty) - 1)
          /\ out.v = fold("bitand", ty, FromPattern(ty, 2^LaneWidth(ty) - 1), x.v, 1)
          /\ out.v = reduction_reference("bitand", ty, x.v)
    /\ (op.fn = "horizontal_or") =>
          /\ ~panicked
          /\ out.k = "sc"
          /\ identity("bitor", ty) = 0
          /\ out.v = reduction_reference("bitor", ty, x.v)
    /\ (op.fn = "horizontal_xor") =>
          /\ ~panicked
          /\ out.k = "sc"
          /\ identity("bitxor", ty) = 0
          /\ out.v = reduction_reference("bitxor", ty, x.v)

\* The and of two 16-bit lanes kept a bit above the low byte.
C12_Witness ==
    /\ op.fn = "horizontal_and"
    /\ ty = "u16"
    /\ Len(x.v) = 2
    /\ x.v[1] = 49152 /\ x.v[2] = 65026
    /\ out.v = 49152

\* C13: on the integer types horizontal_max returns the greatest and
\* horizontal_min the least lane under the type's own ordering (signed for
\* i8, unsigned for u8 and u16); the result is one of the lanes, is what
\* Iterator::max / min return, and [1, 2, 3, 4] has max 4 and min 1.
C13_IntegerMaxMin ==
    /\ (op.fn = "horizontal_max" /\ ty \notin FloatTypes) =>
          /\ ~panicked
          /\ out.k = "sc"
          /\ out.v = max_unwrap(x.v)
          /\ \E i \in 1..Len(x.v) : out.v = x.v[i]
          /\ \A i \in 1..Len(x.v) : out.v >= x.v[i]
          /\ (x.v = Scenario) => out.v = 4
    /\ (op.fn = "horizontal_min" /\ ty \notin FloatTypes) =>
          /\ ~panicked
          /\ out.k = "sc"
          /\ out.v = min_unwrap(x.v)
          /\ \E i \in 1..Len(x.v) : out.v = x.v[i]
          /\ \A i \in 1..Len(x.v) : out.v =< x.v[i]
          /\ (x.v = Scenario) => out.v = 1

\* The greatest of a negative and a positive signed lane is the positive one,
\* though the negative one has the larger bit pattern.
C13_Witness ==
    /\ op.fn = "horizontal_max"
    /\ ty = "i8"
    /\ Len(x.v) = 2
    /\ x.v[1] = -1 /\ x.v[2] = 127
    /\ out.v = 127

\* The non-NaN lanes of the input, and whether it holds zeros of both signs.
NonNaNLanes == {i \in 1..Len(x.v) : ~is_nan(x.v[i])}
BothZeros == (\E i \in 1..Len(x.v) : x.v[i] = Float(0, 0, 0))
             /\ (\E i \in 1..Len(x.v) : x.v[i] = Float(1, 0, 0))
IsZero(f) == f.e = 0 /\ f.m = 0

\* What the claim requires of the result r of the reduction o, and of its
\* agreement with a result s of the scalar fold.
FloatExtreme(o, r) ==
    /\ is_nan(r) <=> NonNaNLanes = {}
    /\ NonNaNLanes # {} =>
          /\ \E i \in NonNaNLanes : r = x.v[i]
          /\ \A i \in NonNaNLanes :
                IF o = "max" THEN FloatKey(r) >= FloatKey(x.v[i])
                ELSE FloatKey(r) =< FloatKey(x.v[i])
MatchesFold(r, s) ==
    \/ is_nan(r) /\ is_nan(s)
    \/ r = s
    \/ BothZeros /\ IsZero(r) /\ IsZero(s)

\* C14: on the float types horizontal_max / horizontal_min agree with every
\* result of the fold of scalar max / min over the lanes from NaN; the fold
\* and the reduction are NaN exactly when every lane is NaN and otherwise a
\* non-NaN lane that no non-NaN lane exceeds / undercuts, the same bits as
\* the fold unless the lanes hold zeros of both signs and the result is a
\* zero; the tests skip their comparison in that case.
C14_FloatMaxMin ==
    \A o \in {"max", "min"} :
        (op.fn = "horizontal_" \o o /\ ty \in FloatTypes) =>
            /\ ~panicked
            /\ out.k = "sc"
            /\ FloatExtreme(o, out.v)
            /\ \A s \in float_reference(o, x.v) :
                  /\ FloatExtreme(o, s)
                  /\ MatchesFold(out.v, s)
                  /\ (BothZeros /\ IsZero(out.v) /\ IsZero(s)) => zero_exempt(x.v, out.v, s)
            /\ \A l, r \in FloatVals :
                  /\ (is_nan(l) /\ ~is_nan(r)) => scalar_maxmin(o, l, r) = {r}
                  /\ (~is_nan(l) /\ is_nan(r)) => scalar_maxmin(o, l, r) = {l}

\* The least of a NaN lane and -2.0 is -2.0, not NaN.
C14_Witness ==
    /\ op.fn = "horizontal_min"
    /\ ty = "f16"
    /\ Len(x.v) = 2
    /\ x.v[1] = Float(1, 31, 514) /\ x.v[2] = Float(1, 16, 0)
    /\ out.v = Float(1, 16, 0)

\* The kinds of step: a lane write, a clone, an operation, an assigning one.
IsWrite == op.fn # "write" /\ op'.fn = "write"
IsClone == copy.k = "none" /\ copy'.k = "vec"
IsOp == op.fn = "none" /\ op'.fn \notin {"none", "write"}
IsAssigning == IsOp /\ op'.form \in {"assign", "assign_scalar_rhs"}

\* A write changes at most one lane of a, and neither its type nor its length.
OneLaneChanged ==
    /\ a'.k = "vec" /\ a'.ty = a.ty
    /\ Len(a'.f0) = Len(a.f0)
    /\ \E i \in 1..Len(a.f0) : \A j \in 1..Len(a.f0) \ {i} : a'.f0[j] = a.f0[j]

\* C15: a write to a lane of a vector changes that lane of that vector only
\* and leaves the lane count, the copy taken earlier and the arrays the
\* vectors were built from as they were; a clone holds the lanes of the
\* vector and leaves it alone; a non-assigning operation leaves both operands
\* and the copy unchanged, an assigning one changes a alone.
C15_ValueSemantics ==
    [][/\ x' = x /\ y' = y /\ b' = b /\ ty' = ty
       /\ IsWrite => (OneLaneChanged /\ copy' = copy)
       /\ IsClone => (a' = a /\ copy'.ty = a.ty /\ copy'.f0 = a.f0)
       /\ (IsOp /\ ~IsAssigning) => (a' = a /\ copy' = copy)
       /\ IsAssigning => copy' = copy]_vars

\* After a write to the first of two lanes the copy taken before it still
\* holds the array the vector was built from, and the second lane is as it
\* was.
C15_Witness ==
    /\ op.fn = "write"
    /\ copy.k = "vec" /\ x.k = "arr"
    /\ Len(x.v) = 2
    /\ copy.f0 = x.v
    /\ a.f0[1] # x.v[1]
    /\ a.f0[2] = x.v[2]

====
